---- MODULE Spec2Model ----
(***************************************************************************)
(* Model of the CoinGecko integration: the data update coordinator         *)
(* (custom_components/coingecko/__init__.py), its sensor                   *)
(* (custom_components/coingecko/sensor.py) and the configuration flows     *)
(* (custom_components/coingecko/config_flow.py).  Spec is the coordinator  *)
(* with its host and its sensors; FlowSpec is the flows and the request    *)
(* derived from the entry they create.                                     *)
(*                                                                         *)
(* Conventions.                                                            *)
(*   - A Python string is a sequence of one-character strings, so that     *)
(*     slicing, concatenation and case conversion are computed.  The       *)
(*     literal suffixes "_24h_change", "_24h_vol", "_market_cap" are kept   *)
(*     as one element each.                                                *)
(*   - An optional value is None (the empty tuple) or Some(v) (<<v>>).     *)
(*   - A dict is a function; its key set is its DOMAIN.                     *)
(*   - Prices and the other numbers are integers, in thousandths.          *)
(*                                                                         *)
(* __init__.py imports CONF_TRADING_PAIRS from const.py, which does not    *)
(* define it; the model takes the key to be "trading_pairs" and the module  *)
(* to load.  DataUpdateCoordinator and aiohttp.ClientSession are the       *)
(* host's and the library's: the model holds what the integration relies   *)
(* on (ApplyResult; a closed session refuses a request).                   *)
(***************************************************************************)
EXTENDS Integers, Sequences, FiniteSets, TLC

None == << >>
Some(v) == << v >>
IsNone(o) == o = None
Val(o) == o[1]

EmptyDict == << >>

(***************************************************************************)
(* Strings.                                                                *)
(***************************************************************************)
UpperChars == << "A", "B", "C", "D", "E", "H", "I", "N", "O", "S", "T", "U" >>
LowerChars == << "a", "b", "c", "d", "e", "h", "i", "n", "o", "s", "t", "u" >>

\* str.lower() on one character
LowerChar(c) ==
    IF \E i \in DOMAIN UpperChars : UpperChars[i] = c
    THEN LowerChars[CHOOSE i \in DOMAIN UpperChars : UpperChars[i] = c]
    ELSE c

\* str.upper() on one character
UpperChar(c) ==
    IF \E i \in DOMAIN LowerChars : LowerChars[i] = c
    THEN UpperChars[CHOOSE i \in DOMAIN LowerChars : LowerChars[i] = c]
    ELSE c

Lower(s) == [i \in 1..Len(s) |-> LowerChar(s[i])]
Upper(s) == [i \in 1..Len(s) |-> UpperChar(s[i])]

Min(a, b) == IF a < b THEN a ELSE b

\* s[:n] and s[n:] of Python, for n >= 0
Prefix(s, n) == SubSeq(s, 1, Min(n, Len(s)))
Suffix(s, n) == SubSeq(s, Min(n, Len(s)) + 1, Len(s))

BTCAUD == << "B", "T", "C", "A", "U", "D" >>
ETHUSD == << "E", "T", "H", "U", "S", "D" >>
ETHAUD == << "E", "T", "H", "A", "U", "D" >>
bitcoin == << "b", "i", "t", "c", "o", "i", "n" >>
btc == << "b", "t", "c" >>
eth == << "e", "t", "h" >>
aud == << "a", "u", "d" >>
usd == << "u", "s", "d" >>

(***************************************************************************)
(* Configuration entries (ConfigEntry.data).  A key that is absent from    *)
(* the dict is absent from the record.  The value stored under             *)
(* trading_pairs is tagged with its Python type, because the coordinator   *)
(* tests isinstance(trading_pairs, str).                                   *)
(***************************************************************************)
StrValue(s) == [kind |-> "str", v |-> s]
ListValue(l) == [kind |-> "list", v |-> l]

\* dict.get(key, default)
Get(d, k, default) == IF k \in DOMAIN d THEN d[k] ELSE default

CfgOnePair == [trading_pairs |-> ListValue(<< BTCAUD >>)]
CfgTwoPairs == [trading_pairs |-> ListValue(<< BTCAUD, ETHUSD >>)]
CfgSameCurrency == [trading_pairs |-> ListValue(<< BTCAUD, ETHAUD >>)]
CfgNoPairs == [trading_pairs |-> ListValue(<< >>)]
CfgString == [trading_pairs |-> StrValue(BTCAUD)]
CfgShortPair == [trading_pairs |-> ListValue(<< << "B", "T", "C" >> >>)]
CfgCoinCurrency == [coin_id |-> bitcoin, currency |-> aud]
CfgSymbolCurrency == [coin_id |-> btc, currency |-> aud]
CfgWithSensorPair == [trading_pairs |-> ListValue(<< BTCAUD, ETHUSD >>),
                      coin_id |-> eth, currency |-> usd]

Configs == { CfgOnePair, CfgTwoPairs, CfgSameCurrency, CfgNoPairs, CfgString, CfgShortPair,
             CfgCoinCurrency, CfgSymbolCurrency, CfgWithSensorPair }

(***************************************************************************)
(* _async_update_data, lines 81-114: the configured pairs and the request. *)
(***************************************************************************)
\* lines 81-85
TradingPairs(entry) ==
    LET raw == Get(entry, "trading_pairs", ListValue(<< BTCAUD >>))
    IN  IF raw.kind = "str" THEN << raw.v >> ELSE raw.v

\* lines 140, 142
CoinIdOf(pair) == Lower(Upper(Prefix(pair, 3)))
\* lines 141, 143
CurrencyOf(pair) == Lower(Upper(Suffix(pair, 3)))
\* line 141: the record's currency code
CurrencySymbolOf(pair) == Upper(Suffix(pair, 3))

\* lines 96, 99-109: one asset identifier per configured pair
CoinIds(tp) == [i \in 1..Len(tp) |-> Lower(Prefix(tp[i], 3))]

InSeq(x, s) == \E i \in DOMAIN s : s[i] = x

\* Currencies without the test of line 110
CurrenciesWithRepeats(tp) == [i \in 1..Len(tp) |-> Lower(Suffix(tp[i], 3))]

\* lines 97, 99-111: the currencies in order of first appearance
RECURSIVE Currencies(_)
Currencies(tp) ==
    IF tp = << >> THEN << >>
    ELSE LET n == Len(tp)
             rest == Currencies(SubSeq(tp, 1, n - 1))
             c == Lower(Suffix(tp[n], 3))
         IN  IF InSeq(c, rest) THEN rest ELSE Append(rest, c)

\* line 87
NoTradingPairs(tp) == tp = << >>
\* line 113
NoValidPairs(coin_ids, currencies) == coin_ids = << >> \/ currencies = << >>

\* lines 118-119: ",".join(...)
RECURSIVE Join(_, _)
Join(parts, sep) ==
    IF parts = << >> THEN << >>
    ELSE IF Len(parts) = 1 THEN parts[1]
    ELSE parts[1] \o << sep >> \o Join(Tail(parts), sep)

\* lines 117-124: the query parameters that depend on the configuration
RequestParams(tp) ==
    [ ids |-> Join(CoinIds(tp), ","), vs_currencies |-> Join(Currencies(tp), ",") ]

(***************************************************************************)
(* config_flow.py: the setup flow (async_step_user) and the options flow   *)
(* (async_step_init).  Both take the pair text of the form, parse it and   *)
(* validate it the same way.                                               *)
(***************************************************************************)
\* str.split(",")
RECURSIVE Split(_)
Split(s) ==
    IF \A k \in DOMAIN s : s[k] # "," THEN << s >>
    ELSE LET i == CHOOSE k \in DOMAIN s : s[k] = "," /\ \A j \in 1..(k - 1) : s[j] # ","
         IN  << SubSeq(s, 1, i - 1) >> \o Split(SubSeq(s, i + 1, Len(s)))

\* str.strip(), the whitespace being the space
RECURSIVE LStrip(_)
LStrip(s) == IF s # << >> /\ s[1] = " " THEN LStrip(Tail(s)) ELSE s
RECURSIVE RStrip(_)
RStrip(s) == IF s # << >> /\ s[Len(s)] = " " THEN RStrip(SubSeq(s, 1, Len(s) - 1)) ELSE s
Strip(s) == RStrip(LStrip(s))

\* str.isalpha(): not empty, and letters only
IsAlpha(s) ==
    /\ s # << >>
    /\ \A i \in DOMAIN s : InSeq(s[i], UpperChars) \/ InSeq(s[i], LowerChars)

\* config_flow.py lines 57 and 117
Blank(text) == text = << >> \/ Strip(text) = << >>

\* the comprehension of lines 66 and 126, over the pieces of the split
RECURSIVE ParsePieces(_)
ParsePieces(pieces) ==
    IF pieces = << >> THEN << >>
    ELSE LET pair == Head(pieces)
             rest == ParsePieces(Tail(pieces))
         IN  IF Strip(pair) # << >> THEN << Upper(Strip(pair)) >> \o rest ELSE rest

\* lines 66 and 126
ParsePairs(text) == ParsePieces(Split(text))

\* PairInvalid without the isalpha test
PairInvalidLengthOnly(pair) == Len(pair) < 6

\* lines 83 and 143
PairInvalid(pair) == Len(pair) < 6 \/ ~IsAlpha(pair)

DEFAULT_SCAN_INTERVAL == 900

\* the results a step returns: async_show_form, async_create_entry
ShowForm(step_id, errors) ==
    [ type |-> "form", step_id |-> step_id, errors |-> errors, title |-> "", data |-> None ]
CreateEntry(title, entry_data) ==
    [ type |-> "create_entry", step_id |-> "", errors |-> "none", title |-> title,
      data |-> Some(entry_data) ]

\* lines 55-96 and 115-156: a step called with the user's input.  The
\* comprehension of line 66 cannot raise on a str, which the schema ensures.
Submitted(step_id, title, user_input) ==
    LET trading_pairs_str == user_input.trading_pairs
        trading_pairs == ParsePairs(trading_pairs_str)
    IN  IF Blank(trading_pairs_str) THEN ShowForm(step_id, "no_trading_pairs")
        ELSE IF trading_pairs = << >> THEN ShowForm(step_id, "no_trading_pairs")
        ELSE IF \E i \in DOMAIN trading_pairs : PairInvalid(trading_pairs[i])
             THEN ShowForm(step_id, "invalid_pair_format")
        ELSE CreateEntry(title, [ scan_interval |-> user_input.scan_interval,
                                  trading_pairs |-> ListValue(trading_pairs) ])

\* CoinGeckoConfigFlow.async_step_user
StepUser(user_input) ==
    IF user_input = None THEN ShowForm("user", "none")
    ELSE Submitted("user", "CoinGecko", Val(user_input))

\* CoinGeckoConfigFlow.async_step_import, lines 98-100
StepImport(import_info) == StepUser(Some(import_info))

\* CoinGeckoOptionsFlow.async_step_init
StepInit(user_input) ==
    IF user_input = None THEN ShowForm("init", "none")
    ELSE Submitted("init", "", Val(user_input))

\* The pair texts a user submits: up to MaxPieces pieces joined by commas.
MaxPieces == 2
Pieces ==
    { BTCAUD, ETHUSD, Lower(ETHAUD), << " " >> \o Lower(BTCAUD),
      << " " >> \o bitcoin \o aud \o << " " >>,
      << "B", "T", "C" >>, << "B", "T", "C", "4", "U", "D" >>, << >>, << " " >> }
Texts == { Join(ps, ",") : ps \in UNION { [ 1..n -> Pieces ] : n \in 1..MaxPieces } }
UserInputs == { [ scan_interval |-> DEFAULT_SCAN_INTERVAL, trading_pairs |-> text ] : text \in Texts }

(***************************************************************************)
(* Upstream responses.  A parsed body is tagged with its JSON type: the    *)
(* top level is an object or null, the value under an asset key is an      *)
(* object or a number.  The fields of an asset object are optional         *)
(* numbers (None is JSON null).                                             *)
(***************************************************************************)
JsonObject(items) == [kind |-> "dict", items |-> items]
JsonNull == [kind |-> "null", items |-> EmptyDict]
JsonNumber == [kind |-> "num", items |-> EmptyDict]

Change(cur) == cur \o << "_24h_change" >>
Vol(cur) == cur \o << "_24h_vol" >>
Cap(cur) == cur \o << "_market_cap" >>

RespBtcAud ==
    JsonObject(btc :> JsonObject(aud :> Some(100000) @@ Change(aud) :> Some(2346)
                                 @@ Vol(aud) :> Some(5000) @@ Cap(aud) :> Some(9000)))
RespBtcZero ==
    JsonObject(btc :> JsonObject(aud :> Some(100000) @@ Change(aud) :> Some(0)
                                 @@ Vol(aud) :> None))
RespBitcoin ==
    JsonObject(bitcoin :> JsonObject(aud :> Some(100000) @@ Change(aud) :> Some(2345)))
RespBoth ==
    JsonObject(btc :> JsonObject(aud :> Some(100000) @@ usd :> Some(70000))
               @@ eth :> JsonObject(usd :> Some(3000) @@ Change(usd) :> Some(-1205)))
RespEthOnly == JsonObject(eth :> JsonObject(usd :> Some(3000)))
RespEmpty == JsonObject(EmptyDict)
RespScalarCoin == JsonObject(btc :> JsonNumber)

Responses == { RespBtcAud, RespBtcZero, RespBitcoin, RespBoth, RespEthOnly,
               RespEmpty, RespScalarCoin, JsonNull }

\* dict.get(key)
DictGet(d, k) == IF k \in DOMAIN d THEN d[k] ELSE None

(***************************************************************************)
(* _async_update_data, lines 137-157: the snapshot built from a body.      *)
(***************************************************************************)
\* lines 145, 147, where both membership tests can be evaluated
PairPresent(pair, data) ==
    /\ CoinIdOf(pair) \in DOMAIN data.items
    /\ CurrencyOf(pair) \in DOMAIN data.items[CoinIdOf(pair)].items

\* a membership test on null or on a number raises TypeError
ProcessRaises(tp, data) ==
    \/ tp # << >> /\ data.kind # "dict"
    \/ /\ data.kind = "dict"
       /\ \E i \in DOMAIN tp :
             /\ CoinIdOf(tp[i]) \in DOMAIN data.items
             /\ data.items[CoinIdOf(tp[i])].kind # "dict"

\* lines 148-155
PriceRecord(pair, data) ==
    LET coin_data == data.items[CoinIdOf(pair)].items
        currency == CurrencyOf(pair)
    IN  [ price |-> coin_data[currency],
          coin_id |-> CoinIdOf(pair),
          currency |-> CurrencySymbolOf(pair),
          change_24h |-> DictGet(coin_data, Change(currency)),
          volume_24h |-> DictGet(coin_data, Vol(currency)),
          market_cap |-> DictGet(coin_data, Cap(currency)) ]

\* ProcessedData with the return placed inside the loop: only the first
\* configured pair is looked up
ProcessedDataFirstPairOnly(tp, data) ==
    [ pair \in { tp[i] : i \in { j \in DOMAIN tp : j = 1 /\ PairPresent(tp[j], data) } }
        |-> PriceRecord(pair, data) ]

\* lines 138-157
ProcessedData(tp, data) ==
    [ pair \in { tp[i] : i \in { j \in DOMAIN tp : PairPresent(tp[j], data) } }
        |-> PriceRecord(pair, data) ]

(***************************************************************************)
(* The result of one cycle: what _async_update_data returns or raises.     *)
(* A raise has the exception's type, the text it was raised with (error),  *)
(* the value formatted into that text (arg) and the handler of lines       *)
(* 159-162 that re-raised it: both handlers embed the text of the          *)
(* exception they caught in the text of the UpdateFailed they raise.       *)
(***************************************************************************)
Returned(d) ==
    [ ok |-> TRUE, data |-> d, exception |-> "none", error |-> "none",
      arg |-> None, handler |-> "none" ]
Raised(exc, msg) ==
    [ ok |-> FALSE, data |-> EmptyDict, exception |-> exc, error |-> msg,
      arg |-> None, handler |-> "none" ]
UpdateFailed(msg) == Raised("UpdateFailed", msg)

\* line 128: the status is formatted into the text
StatusFailed(status) == [ UpdateFailed("status") EXCEPT !.arg = Some(status) ]

\* Handle without the `except Exception` of lines 161-162
HandleClientErrorOnly(r) ==
    IF r.ok THEN r
    ELSE IF r.exception = "ClientError"
    THEN [ r EXCEPT !.exception = "UpdateFailed", !.handler = "communication" ]
    ELSE r

\* lines 80 and 159-162: the try around the whole cycle
Handle(r) ==
    IF r.ok THEN r
    ELSE IF r.exception = "ClientError"
    THEN [ r EXCEPT !.exception = "UpdateFailed", !.handler = "communication" ]
    ELSE [ r EXCEPT !.exception = "UpdateFailed", !.handler = "unexpected" ]

\* StartOutcome without the two configuration checks
StartOutcomeUnchecked(tp, closed) ==
    IF closed THEN "session_closed" ELSE "request"

\* lines 87-88, 113-114 and 126: how far the cycle gets before the request;
\* closed tells whether the session it holds has been closed
StartOutcome(tp, closed) ==
    IF NoTradingPairs(tp) THEN "no_trading_pairs"
    ELSE IF NoValidPairs(CoinIds(tp), Currencies(tp)) THEN "no_valid_pairs"
    ELSE IF closed THEN "session_closed"
    ELSE "request"

\* StartFailure with the closed session answered by an empty snapshot
StartFailureReturnsEmpty(outcome) ==
    IF outcome = "session_closed" THEN Returned(EmptyDict) ELSE UpdateFailed(outcome)

\* lines 88, 114 and 126: what a cycle that issues no request raises; a
\* closed ClientSession refuses the request with a RuntimeError
StartFailure(outcome) ==
    IF outcome = "session_closed" THEN Raised("RuntimeError", outcome)
    ELSE UpdateFailed(outcome)

\* NeedsSession without the test of line 91: a session for every cycle
NeedsSessionAlways(session) == TRUE

\* line 91
NeedsSession(session) == session = None

\* StatusOk with any 2xx status accepted
StatusOkAny2xx(status) == status \in 200..299

\* lines 127-128
StatusOk(status) == status = 200

Statuses == { 200, 204, 404, 500 }

\* the outcomes of `await response.json()`
ContentTypeError == [kind |-> "content_type_error", data |-> JsonNull]
DecodeError == [kind |-> "decode_error", data |-> JsonNull]
Parsed(d) == [kind |-> "json", data |-> d]
Bodies == { ContentTypeError, DecodeError } \cup { Parsed(d) : d \in Responses }

\* BodyResult with the two parse failures answered by an empty snapshot
\* instead of a raise
BodyResultSwallowsParseError(tp, body) ==
    IF body.kind # "json" THEN Returned(EmptyDict)
    ELSE IF ProcessRaises(tp, body.data) THEN Handle(Raised("TypeError", "TypeError"))
    ELSE Returned(ProcessedData(tp, body.data))

\* lines 130-157 and 161-162
BodyResult(tp, body) ==
    IF body.kind = "content_type_error" THEN Handle(UpdateFailed("invalid_json"))
    ELSE IF body.kind = "decode_error" THEN Handle(UpdateFailed("parse_failed"))
    ELSE IF ProcessRaises(tp, body.data) THEN Handle(Raised("TypeError", "TypeError"))
    ELSE Returned(ProcessedData(tp, body.data))

\* lines 126 and 159-162: what an exception raised by the request becomes
RequestErrors == { "ClientError", "TimeoutError" }
RequestErrorResult(exc) == Handle(Raised(exc, exc))

\* lines 127-128 and 161-162
StatusResult(status) == Handle(StatusFailed(status))

(***************************************************************************)
(* The sensor (sensor.py).                                                 *)
(***************************************************************************)
\* sensor.py lines 26-30
SensorKey(entry) ==
    Upper(Get(entry, "coin_id", bitcoin)) \o Upper(Get(entry, "currency", aud))

Ret(v) == [raises |-> FALSE, value |-> v]
Raise == [raises |-> TRUE, value |-> None]

\* coordinator.data[pair]: TypeError on None, KeyError on a missing key
Subscript(data, key) ==
    IF data = None THEN Raise
    ELSE IF key \notin DOMAIN Val(data) THEN Raise
    ELSE Ret(Val(data)[key])

\* NoData without the membership test
NoDataOnlyWhenEmpty(data, key) ==
    \/ data = None
    \/ DOMAIN Val(data) = {}

\* sensor.py lines 51, 60, 69
NoData(data, key) ==
    \/ data = None
    \/ DOMAIN Val(data) = {}
    \/ key \notin DOMAIN Val(data)

\* sensor.py lines 48-55
NativeValue(data, key) ==
    IF NoData(data, key) THEN Ret(None)
    ELSE LET r == Subscript(data, key)
         IN  IF r.raises THEN r ELSE Ret(r.value.price)

\* sensor.py lines 57-64
NativeUnit(data, key) ==
    IF NoData(data, key) THEN Ret(None)
    ELSE LET r == Subscript(data, key)
         IN  IF r.raises THEN r ELSE Ret(Some(r.value.currency))

\* the truth value of an optional number
Truthy(o) == o # None /\ Val(o) # 0

\* The double that holds |v| / 1000 is m / 2^k, with 2^52 <= m < 2^53.
\* ShiftUp and ShiftDown count the doublings and halvings that bring
\* a / 1000 into [1, 2); FractionBits is k.
RECURSIVE ShiftUp(_)
ShiftUp(a) == IF a >= 1000 THEN 0 ELSE 1 + ShiftUp(2 * a)
RECURSIVE ShiftDown(_, _)
ShiftDown(a, p) == IF a < 2000 * p THEN 0 ELSE 1 + ShiftDown(a, 2 * p)
FractionBits(a) == IF a < 1000 THEN 52 + ShiftUp(a) ELSE 52 - ShiftDown(a, 1)

RECURSIVE Pow2Mod1000(_)
Pow2Mod1000(k) == IF k = 0 THEN 1 ELSE (2 * Pow2Mod1000(k - 1)) % 1000

\* (a * 2^k) mod 1000: 0 when the double is a / 1000 exactly, below 500
\* when the double is less than a / 1000, above 500 when it is more
FloatResidue(a) == ((a % 1000) * Pow2Mod1000(FractionBits(a))) % 1000

\* sensor.py line 82: round(change_24h, 2) on the double parsed from the
\* JSON number v / 1000.  round() is correctly rounded on the double's own
\* value: a decimal tie goes the way the double errs, and to the even
\* hundredth only when the double is exact.
Round2(v) ==
    IF v = 0 THEN 0
    ELSE LET a == IF v < 0 THEN -v ELSE v
             q == a \div 10
             d == a % 10
             r == FloatResidue(a)
             up == d > 5 \/ (d = 5 /\ (r > 500 \/ (r = 0 /\ q % 2 = 1)))
             h == IF up THEN q + 1 ELSE q
         IN  IF v < 0 THEN -(10 * h) ELSE 10 * h

\* sensor.py line 77: last_update_success is the coordinator's success flag,
\* a bool, which has no isoformat
LastUpdated(last_update_success) == None

\* sensor.py lines 80-90
OptionalAttributes(rec) ==
    LET change == IF Truthy(rec.change_24h)
                  THEN "change_24h" :> Round2(Val(rec.change_24h)) ELSE EmptyDict
        volume == IF Truthy(rec.volume_24h)
                  THEN "volume_24h" :> Val(rec.volume_24h) ELSE EmptyDict
        cap == IF Truthy(rec.market_cap)
               THEN "market_cap" :> Val(rec.market_cap) ELSE EmptyDict
    IN  change @@ volume @@ cap

\* sensor.py lines 66-90
ExtraStateAttributes(data, key, last_update_success) ==
    IF NoData(data, key) THEN Ret(EmptyDict)
    ELSE LET r == Subscript(data, key)
         IN  IF r.raises THEN r
             ELSE Ret(("coin_id" :> Some(r.value.coin_id))
                      @@ ("currency" :> Some(r.value.currency))
                      @@ ("last_updated" :> LastUpdated(last_update_success))
                      @@ OptionalAttributes(r.value))

(***************************************************************************)
(* The state machine.                                                      *)
(***************************************************************************)
MaxSessions == 2

VARIABLES
    entry,                \* ConfigEntry.data of the config entry
    lifecycle,            \* "first_refresh" (async_setup_entry is running: at the
                          \* first refresh, or, once registered, at the forward of
                          \* line 45), "loaded", "unload_platforms"
                          \* (async_unload_entry at the await of line 54),
                          \* "unloading" (at the await of line 56), "unloaded"
    registered,           \* entry_id in hass.data[DOMAIN]
    sensors,              \* the trading-pair keys of the sensor entities added
    setup_result,         \* what async_setup_entry returned: "none", "True", "raised"
    unload_result,        \* what async_unload_entry returned last: "none", "True", "False"
    unload_ok,            \* the local unload_ok of an async_unload_entry that is at
                          \* line 56: None or Some(bool)
    data,                 \* coordinator.data: None or Some(dict)
    last_update_success,  \* coordinator.last_update_success
    session,              \* coordinator.session: None or Some(id)
    sessions,             \* the ClientSessions created so far: "open" or "closed"
    close_calls,          \* per ClientSession, the calls of its close()
    pc,                   \* _async_update_data: "idle", "get" (awaiting the
                          \* response), "json" (awaiting the body)
    close_pc,             \* async_close: "idle", "closing" (awaiting session.close())
    cycle,                \* the current or latest fetch cycle
    flow                  \* the configuration flow in progress, if any

vars == << entry, lifecycle, registered, sensors, setup_result, unload_result, unload_ok, data,
           last_update_success, session, sessions, close_calls, pc, close_pc, cycle, flow >>

NoCycle ==
    [ tp |-> << >>, outcome |-> "none", error |-> "none", requests |-> 0,
      before |-> None, raised |-> "none", status |-> None, body |-> None,
      exception |-> "none", arg |-> None, handler |-> "none",
      prev |-> [ outcome |-> "none", body |-> None ] ]

\* no flow is in progress
NoFlow == [ handler |-> "none", user_input |-> None, result |-> None, params |-> None ]

\* __init__.py line 33 and lines 64-76: a coordinator has just been constructed
Constructed(cfg) ==
    /\ entry = cfg
    /\ lifecycle = "first_refresh"
    /\ data = None
    /\ last_update_success = TRUE
    /\ session = None
    /\ pc = "idle"
    /\ close_pc = "idle"
    /\ cycle = NoCycle

Init ==
    /\ \E cfg \in Configs : Constructed(cfg)
    /\ registered = FALSE
    /\ sensors = {}
    /\ setup_result = "none"
    /\ unload_result = "none"
    /\ unload_ok = None
    /\ sessions = << >>
    /\ close_calls = << >>
    /\ flow = NoFlow

\* The host's DataUpdateCoordinator takes the result of _async_update_data:
\* a returned dict becomes coordinator.data, an UpdateFailed leaves it.
ApplyResult(result) ==
    /\ data' = IF result.ok THEN Some(result.data) ELSE data
    /\ last_update_success' = result.ok
    /\ pc' = "idle"

Finished(result) ==
    [ cycle EXCEPT !.outcome = IF result.ok THEN "ok" ELSE "failed",
                   !.error = result.error,
                   !.exception = result.exception,
                   !.arg = result.arg,
                   !.handler = result.handler ]

Host == << entry, lifecycle, registered, sensors, setup_result, unload_result, unload_ok >>

\* SetupOutcome without the try/except of lines 36-40
SetupOutcomePropagates(raised) == IF raised THEN "raised" ELSE "True"

\* lines 36-40: what becomes of a first refresh that raised
SetupOutcome(raised) == "True"

\* async_setup_entry resumes when its first refresh ends, in the same step:
\* lines 38-45, up to the await of the forward.  A later cycle ends without it.
SetupResumes(result) ==
    IF lifecycle = "first_refresh"
    THEN IF SetupOutcome(~result.ok) = "True"
         THEN /\ registered' = TRUE
              /\ UNCHANGED << lifecycle, setup_result >>
         ELSE /\ setup_result' = SetupOutcome(~result.ok)
              /\ lifecycle' = "unloaded"
              /\ UNCHANGED registered
    ELSE UNCHANGED << lifecycle, registered, setup_result >>

\* the end of a cycle: the host takes the result, and the caller resumes
CycleEnds(result) ==
    /\ ApplyResult(result)
    /\ SetupResumes(result)
    /\ UNCHANGED << entry, sensors, unload_result, unload_ok >>

\* The first refresh of async_setup_entry (line 37) or a timer tick runs
\* _async_update_data up to the request: lines 81-126.
FetchStart ==
    /\ pc = "idle"
    /\ \/ lifecycle = "first_refresh" /\ cycle.outcome = "none"
       \/ lifecycle \in { "loaded", "unload_platforms" }
    /\ LET tp == TradingPairs(entry)
           create == ~NoTradingPairs(tp) /\ NeedsSession(session)
           held == IF create THEN Some(Len(sessions) + 1) ELSE session
           closed == held # None /\ ~create /\ sessions[Val(held)] = "closed"
           outcome == StartOutcome(tp, closed)
           begun == [ NoCycle EXCEPT !.tp = tp, !.before = data, !.outcome = "running",
                                     !.prev = [ outcome |-> cycle.outcome,
                                                body |-> IF cycle.outcome = "ok"
                                                         THEN cycle.body ELSE None ] ]
       IN  /\ create => Len(sessions) < MaxSessions
           /\ session' = held
           /\ sessions' = IF create THEN Append(sessions, "open") ELSE sessions
           /\ close_calls' = IF create THEN Append(close_calls, 0) ELSE close_calls
           /\ IF outcome = "request"
              THEN /\ cycle' = [ begun EXCEPT !.requests = 1 ]
                   /\ pc' = "get"
                   /\ UNCHANGED << Host, data, last_update_success >>
              ELSE LET result == Handle(StartFailure(outcome))
                   IN  /\ cycle' = [ begun EXCEPT !.outcome = "failed",
                                                  !.error = result.error,
                                                  !.exception = result.exception,
                                                  !.arg = result.arg,
                                                  !.handler = result.handler ]
                       /\ CycleEnds(result)
    /\ UNCHANGED close_pc
    /\ UNCHANGED flow

\* line 126: the request raises (a transport error, or the 30 s timeout)
FetchRequestError ==
    /\ pc = "get"
    /\ \E exc \in RequestErrors :
          LET result == RequestErrorResult(exc)
          IN  /\ cycle' = [ Finished(result) EXCEPT !.raised = exc ]
              /\ CycleEnds(result)
    /\ UNCHANGED << session, sessions, close_calls, close_pc >>
    /\ UNCHANGED flow

\* FetchResponse with the published dict cleared in place before the body
\* is read
FetchResponseClearsSnapshot ==
    /\ pc = "get"
    /\ \E status \in Statuses :
          IF StatusOk(status)
          THEN /\ pc' = "json"
               /\ cycle' = [ cycle EXCEPT !.status = Some(status) ]
               /\ data' = Some(EmptyDict)
               /\ UNCHANGED << Host, last_update_success >>
          ELSE LET result == StatusResult(status)
               IN  /\ cycle' = [ Finished(result) EXCEPT !.status = Some(status) ]
                   /\ CycleEnds(result)
    /\ UNCHANGED << session, sessions, close_calls, close_pc >>
    /\ UNCHANGED flow

\* lines 126-128: the response arrives
FetchResponse ==
    /\ pc = "get"
    /\ \E status \in Statuses :
          IF StatusOk(status)
          THEN /\ pc' = "json"
               /\ cycle' = [ cycle EXCEPT !.status = Some(status) ]
               /\ UNCHANGED << Host, data, last_update_success >>
          ELSE LET result == StatusResult(status)
               IN  /\ cycle' = [ Finished(result) EXCEPT !.status = Some(status) ]
                   /\ CycleEnds(result)
    /\ UNCHANGED << session, sessions, close_calls, close_pc >>
    /\ UNCHANGED flow

\* FetchBody with the pairs the published snapshot already holds left out
\* of the new one
FetchBodySkipsKnownPairs ==
    /\ pc = "json"
    /\ \E body \in Bodies :
          LET full == BodyResult(cycle.tp, body)
              known == IF data = None THEN {} ELSE DOMAIN Val(data)
              result == IF full.ok
                        THEN Returned([ pair \in DOMAIN full.data \ known |-> full.data[pair] ])
                        ELSE full
          IN  /\ cycle' = [ Finished(result) EXCEPT !.body = Some(body) ]
              /\ CycleEnds(result)
    /\ UNCHANGED << session, sessions, close_calls, close_pc >>
    /\ UNCHANGED flow

\* FetchBody with a coordinator that, once a cycle has failed, fails every
\* later one
FetchBodyGivesUpAfterFailure ==
    /\ pc = "json"
    /\ \E body \in Bodies :
          LET result == IF last_update_success
                        THEN BodyResult(cycle.tp, body)
                        ELSE Handle(UpdateFailed("gave_up"))
          IN  /\ cycle' = [ Finished(result) EXCEPT !.body = Some(body) ]
              /\ CycleEnds(result)
    /\ UNCHANGED << session, sessions, close_calls, close_pc >>
    /\ UNCHANGED flow

\* lines 130-157: the body arrives and is processed
FetchBody ==
    /\ pc = "json"
    /\ \E body \in Bodies :
          LET result == BodyResult(cycle.tp, body)
          IN  /\ cycle' = [ Finished(result) EXCEPT !.body = Some(body) ]
              /\ CycleEnds(result)
    /\ UNCHANGED << session, sessions, close_calls, close_pc >>
    /\ UNCHANGED flow

\* The forward of line 45 ends: the host has called the sensor platform's
\* async_setup_entry (sensor.py lines 18-33), and line 47 returns True.
SetupFinish ==
    /\ lifecycle = "first_refresh"
    /\ registered
    /\ sensors' = { SensorKey(entry) }
    /\ setup_result' = "True"
    /\ lifecycle' = "loaded"
    /\ UNCHANGED << entry, registered, unload_result, unload_ok, data, last_update_success,
                    session, sessions, close_calls, pc, close_pc, cycle >>
    /\ UNCHANGED flow

\* line 166
SessionHeld(s) == s # None

\* SessionAfterClose without the assignment of line 168
SessionKeptAfterClose(s) == s

\* line 168
SessionAfterClose(s) == None

\* async_close up to `await self.session.close()`: lines 166-167
CloseCall ==
    IF SessionHeld(session)
    THEN /\ sessions' = [ sessions EXCEPT ![Val(session)] = "closed" ]
         /\ close_calls' = [ close_calls EXCEPT ![Val(session)] = @ + 1 ]
         /\ close_pc' = "closing"
    ELSE UNCHANGED << sessions, close_calls, close_pc >>

\* async_close called on the coordinator by the host (shutdown).  The calls
\* of async_close do not overlap: async_unload_entry pops the coordinator
\* before it calls async_close, so it runs once per coordinator.
AsyncClose ==
    /\ lifecycle \in { "loaded", "unloaded" }
    /\ close_pc = "idle"
    /\ CloseCall
    /\ UNCHANGED << Host, data, last_update_success, session, pc, cycle >>
    /\ UNCHANGED flow

\* line 58: the value async_unload_entry returns
Returns(ok) == IF ok THEN "True" ELSE "False"

\* async_close resumes after session.close(): line 168; an
\* async_unload_entry that awaited it (line 56) then returns, line 58
CloseFinish ==
    /\ close_pc = "closing"
    /\ session' = SessionAfterClose(session)
    /\ close_pc' = "idle"
    /\ IF lifecycle = "unloading"
       THEN /\ lifecycle' = "unloaded"
            /\ unload_result' = Returns(Val(unload_ok))
            /\ unload_ok' = None
       ELSE UNCHANGED << lifecycle, unload_result, unload_ok >>
    /\ UNCHANGED << entry, registered, sensors, setup_result, data,
                    last_update_success, sessions, close_calls, pc, cycle >>
    /\ UNCHANGED flow

\* UnloadProceeds without the test of line 54
UnloadProceedsAlways(ok) == TRUE

\* line 54: `if unload_ok := ...`
UnloadProceeds(ok) == ok

\* async_unload_entry up to the await of line 54: the host starts to unload
\* the platforms
UnloadEntry ==
    /\ lifecycle = "loaded"
    /\ registered
    /\ close_pc = "idle"
    /\ lifecycle' = "unload_platforms"
    /\ UNCHANGED << entry, registered, sensors, setup_result, unload_result, unload_ok, data,
                    last_update_success, session, sessions, close_calls, pc, close_pc,
                    cycle >>
    /\ UNCHANGED flow

\* async_unload_entry resumes with the host's answer ok, lines 54-58: the
\* host has removed the sensors if it answers True; the coordinator is
\* popped and async_close runs up to its await, or, without a session, to
\* its end, and then line 58 returns.
PlatformsUnloaded ==
    /\ lifecycle = "unload_platforms"
    /\ \E ok \in BOOLEAN :
          /\ sensors' = IF ok THEN {} ELSE sensors
          /\ IF UnloadProceeds(ok)
             THEN /\ registered' = FALSE
                  /\ CloseCall
                  /\ IF close_pc' = "closing"
                     THEN /\ lifecycle' = "unloading"
                          /\ unload_ok' = Some(ok)
                          /\ UNCHANGED unload_result
                     ELSE /\ lifecycle' = "unloaded"
                          /\ unload_result' = Returns(ok)
                          /\ UNCHANGED unload_ok
             ELSE /\ lifecycle' = "loaded"
                  /\ unload_result' = Returns(ok)
                  /\ UNCHANGED << registered, unload_ok, sessions, close_calls, close_pc >>
    /\ UNCHANGED << entry, setup_result, data, last_update_success, session, pc, cycle >>
    /\ UNCHANGED flow

\* The host sets the entry up again: async_setup_entry line 33
SetupEntry ==
    /\ lifecycle = "unloaded"
    /\ pc = "idle"
    /\ close_pc = "idle"
    /\ \E cfg \in Configs : entry' = cfg
    /\ lifecycle' = "first_refresh"
    /\ data' = None
    /\ last_update_success' = TRUE
    /\ session' = None
    /\ cycle' = NoCycle
    /\ setup_result' = "none"
    /\ UNCHANGED << pc, close_pc >>
    /\ UNCHANGED << registered, sensors, unload_result, unload_ok, sessions, close_calls >>
    /\ UNCHANGED flow

Next ==
    \/ FetchStart
    \/ FetchRequestError
    \/ FetchResponse
    \/ FetchBody
    \/ SetupFinish
    \/ AsyncClose
    \/ CloseFinish
    \/ UnloadEntry
    \/ PlatformsUnloaded
    \/ SetupEntry

Spec == Init /\ [][Next]_vars

(***************************************************************************)
(* The configuration flows, on their own: a flow is opened (or started by  *)
(* an import, with its data), the user submits pair texts until one is     *)
(* accepted, and the coordinator of the entry that the setup flow created  *)
(* derives its request from it.                                            *)
(***************************************************************************)
Machine == << entry, lifecycle, registered, sensors, setup_result, unload_result, unload_ok, data,
              last_update_success, session, sessions, close_calls, pc, close_pc, cycle >>

FlowInit ==
    /\ Constructed(CfgOnePair)
    /\ registered = FALSE
    /\ sensors = {}
    /\ setup_result = "none"
    /\ unload_result = "none"
    /\ unload_ok = None
    /\ sessions = << >>
    /\ close_calls = << >>
    /\ flow = NoFlow

\* async_step_user without input: lines 50-53
UserFlowShow ==
    /\ flow.handler = "none"
    /\ flow' = [ flow EXCEPT !.handler = "user", !.result = Some(StepUser(None)) ]
    /\ UNCHANGED Machine

\* async_step_user with the form's input: lines 55-96
UserFlowSubmit ==
    /\ flow.handler = "user"
    /\ Val(flow.result).type = "form"
    /\ \E user_input \in UserInputs :
          flow' = [ flow EXCEPT !.user_input = Some(user_input),
                                !.result = Some(StepUser(Some(user_input))) ]
    /\ UNCHANGED Machine

\* async_step_import, lines 98-100: the first step of a flow of source
\* import, called with the data and with no form shown before
ImportFlowStart ==
    /\ flow.handler = "none"
    /\ \E import_info \in UserInputs :
          flow' = [ flow EXCEPT !.handler = "user",
                                !.user_input = Some(import_info),
                                !.result = Some(StepImport(import_info)) ]
    /\ UNCHANGED Machine

\* async_step_init without input: lines 158-172
OptionsFlowShow ==
    /\ flow.handler = "none"
    /\ flow' = [ flow EXCEPT !.handler = "options", !.result = Some(StepInit(None)) ]
    /\ UNCHANGED Machine

\* async_step_init with the form's input: lines 114-156
OptionsFlowSubmit ==
    /\ flow.handler = "options"
    /\ Val(flow.result).type = "form"
    /\ \E user_input \in UserInputs :
          flow' = [ flow EXCEPT !.user_input = Some(user_input),
                                !.result = Some(StepInit(Some(user_input))) ]
    /\ UNCHANGED Machine

\* __init__.py lines 81-124, on the entry the setup flow created: the pairs
\* and the query parameters of the coordinator's request
EntryRequest ==
    /\ flow.handler = "user"
    /\ Val(flow.result).type = "create_entry"
    /\ flow.params = None
    /\ flow' = [ flow EXCEPT !.params =
                    Some(RequestParams(TradingPairs(Val(Val(flow.result).data)))) ]
    /\ UNCHANGED Machine

FlowNext ==
    \/ UserFlowShow
    \/ UserFlowSubmit
    \/ ImportFlowStart
    \/ OptionsFlowShow
    \/ OptionsFlowSubmit
    \/ EntryRequest

FlowSpec == FlowInit /\ [][FlowNext]_vars

(***************************************************************************)
(* Properties.                                                             *)
(***************************************************************************)
CycleFinished == pc = "idle" /\ cycle.outcome \in { "ok", "failed" }

\* the cycle met one of the failures: no pair configured, a transport error
\* or timeout, a status other than 200, a body that does not parse
FailureMet ==
    \/ cycle.tp = << >>
    \/ cycle.raised # "none"
    \/ cycle.status # None /\ Val(cycle.status) # 200
    \/ cycle.body # None /\ Val(cycle.body).kind # "json"

\* C1: after a cycle that met a failure (no pair configured, transport error
\* or timeout, non-200 status, unparsable body), the snapshot equals the
\* snapshot before the cycle and the cycle is marked failed.
C1_FailedCycleKeepsSnapshot ==
    (CycleFinished /\ FailureMet) =>
        /\ cycle.outcome = "failed"
        /\ last_update_success = FALSE
        /\ data = cycle.before

\* a status 500 after a successful cycle: the earlier, non-empty snapshot stays
C1_Witness ==
    /\ CycleFinished
    /\ cycle.status = Some(500)
    /\ cycle.before # None
    /\ DOMAIN Val(cycle.before) # {}
    /\ data = cycle.before

\* the response holds the pair's asset key and, under it, its currency key
InResponse(pair, resp) ==
    /\ Lower(Prefix(pair, 3)) \in DOMAIN resp.items
    /\ Lower(Suffix(pair, 3)) \in DOMAIN resp.items[Lower(Prefix(pair, 3))].items

\* the body is a JSON object whose values are objects
WellFormed(body) ==
    /\ body.kind = "json"
    /\ body.data.kind = "dict"
    /\ \A c \in DOMAIN body.data.items : body.data.items[c].kind = "dict"

\* C2: a cycle whose response is a well-formed body succeeds, whatever pairs
\* the body lacks, and its snapshot holds exactly the configured pairs whose
\* asset key and currency key are in the response, each with the price the
\* response gives.
C2_SnapshotIsPresentPairs ==
    (CycleFinished /\ cycle.body # None /\ WellFormed(Val(cycle.body))) =>
        LET tp == cycle.tp
            resp == Val(cycle.body).data
        IN  /\ cycle.outcome = "ok"
            /\ data # None
            /\ DOMAIN Val(data) =
                  { tp[i] : i \in { j \in DOMAIN tp : InResponse(tp[j], resp) } }
            /\ \A pair \in DOMAIN Val(data) :
                  Val(data)[pair].price =
                      resp.items[Lower(Prefix(pair, 3))].items[Lower(Suffix(pair, 3))]

\* two pairs configured, the response lacks one of them, and the earlier
\* snapshot held a pair that the new one does not
C2_Witness ==
    /\ CycleFinished
    /\ cycle.outcome = "ok"
    /\ Len(cycle.tp) = 2
    /\ Cardinality(DOMAIN Val(data)) = 1
    /\ cycle.before # None
    /\ \E pair \in DOMAIN Val(cycle.before) : pair \notin DOMAIN Val(data)

ConfiguredPairs == { TradingPairs(entry)[i] : i \in DOMAIN TradingPairs(entry) }

\* C3: once the entry is set up there is exactly one sensor per configured
\* trading pair, keyed as the coordinator keys that pair's record, so a pair
\* that has a record in the snapshot has a sensor reporting its price.
C3_OneSensorPerConfiguredPair ==
    lifecycle = "loaded" =>
        \A pair \in ConfiguredPairs :
            /\ pair \in sensors
            /\ Cardinality(sensors) = Cardinality(ConfiguredPairs)
            /\ (data # None /\ pair \in DOMAIN Val(data)) =>
                  NativeValue(data, pair) = Ret(Val(data)[pair].price)

\* C4: configured with the pair bitcoin/aud, a successful cycle whose response
\* gives bitcoin/aud a price and a 24h change, and nothing else, stores a
\* record with that price for the pair, and the pair's sensor attributes hold
\* change_24h and neither volume_24h nor market_cap.
C4_CoinCurrencyConfiguration ==
    ( /\ entry = CfgCoinCurrency
      /\ lifecycle = "loaded"
      /\ CycleFinished
      /\ cycle.body = Some(Parsed(RespBitcoin)) ) =>
        LET key == SensorKey(entry)
            attributes == ExtraStateAttributes(data, key, last_update_success).value
        IN  /\ cycle.outcome = "ok"
            /\ data # None
            /\ key \in DOMAIN Val(data)
            /\ Val(data)[key].price = RespBitcoin.items[bitcoin].items[aud]
            /\ "change_24h" \in DOMAIN attributes
            /\ "volume_24h" \notin DOMAIN attributes
            /\ "market_cap" \notin DOMAIN attributes

\* C5: for a sensor whose pair is in the snapshot, each optional attribute
\* (change_24h, volume_24h, market_cap) is present exactly when the record's
\* value for it is not None, a zero included.
C5_OptionalFieldPresentIffNotNone ==
    \A key \in sensors :
        (data # None /\ key \in DOMAIN Val(data)) =>
            LET rec == Val(data)[key]
                attributes == ExtraStateAttributes(data, key, last_update_success).value
            IN  /\ "change_24h" \in DOMAIN attributes <=> rec.change_24h # None
                /\ "volume_24h" \in DOMAIN attributes <=> rec.volume_24h # None
                /\ "market_cap" \in DOMAIN attributes <=> rec.market_cap # None

\* C6: a cycle whose configured pair list is empty, or whose asset list or
\* currency list is empty, fails with a configuration error and issues no
\* HTTP request.
C6_EmptyConfigurationFailsWithoutRequest ==
    ( /\ cycle.outcome # "none"
      /\ \/ TradingPairs(entry) = << >>
         \/ CoinIds(TradingPairs(entry)) = << >>
         \/ Currencies(TradingPairs(entry)) = << >> ) =>
        /\ cycle.outcome = "failed"
        /\ cycle.error \in { "no_trading_pairs", "no_valid_pairs" }
        /\ cycle.requests = 0
        /\ pc = "idle"

\* a timer cycle with an empty pair list has failed, after setup
C6_Witness ==
    /\ TradingPairs(entry) = << >>
    /\ lifecycle = "loaded"
    /\ cycle.outcome = "failed"
    /\ cycle.requests = 0

\* C7: the step in which the first refresh fails goes on to register the
\* coordinator and to forward the entry to the sensor platform; when the
\* forward ends, async_setup_entry returns True, and the snapshot the sensors
\* then see is empty.
C7_SetupSurvivesFailedFirstRefresh ==
    /\ [][ ( /\ lifecycle = "first_refresh"
             /\ cycle.outcome # "failed"
             /\ cycle'.outcome = "failed" ) =>
               /\ registered'
               /\ lifecycle' = "first_refresh"
               /\ setup_result' = "none"
               /\ data' = None ]_vars
    /\ [][ ( /\ lifecycle = "first_refresh"
             /\ lifecycle' # "first_refresh"
             /\ cycle.outcome = "failed" ) =>
               /\ setup_result' = "True"
               /\ lifecycle' = "loaded"
               /\ registered'
               /\ sensors' = { SensorKey(entry) }
               /\ data' = None
               /\ \A key \in sensors' : NativeValue(data', key) = Ret(None) ]_vars

\* set up, and no cycle has succeeded: the first refresh failed
C7_Witness ==
    /\ lifecycle = "loaded"
    /\ setup_result = "True"
    /\ registered
    /\ data = None
    /\ cycle.outcome = "failed"

\* C8: a sensor whose pair is not in the snapshot (the snapshot never set,
\* empty, or holding other pairs) reads value None, unit None and no
\* attributes, and no read raises.
C8_AbsentPairReadsNothing ==
    \A key \in sensors :
        (data = None \/ key \notin DOMAIN Val(data)) =>
            /\ NativeValue(data, key) = Ret(None)
            /\ NativeUnit(data, key) = Ret(None)
            /\ ExtraStateAttributes(data, key, last_update_success) = Ret(EmptyDict)

\* a sensor whose pair is absent from a snapshot that holds another pair
C8_Witness ==
    \E key \in sensors :
        /\ data # None
        /\ DOMAIN Val(data) # {}
        /\ key \notin DOMAIN Val(data)

\* C9: no session exists before the first cycle; a cycle that reaches session
\* acquisition without a session creates one; and while a session is held,
\* no step other than a shutdown replaces it or creates another.
C9_SessionCreatedOnceAndReused ==
    /\ [](cycle.outcome = "none" => session = None)
    /\ [][ ( /\ session = None
             /\ pc = "idle"
             /\ cycle' # cycle
             /\ cycle'.outcome # "none"
             /\ cycle'.tp # << >> ) =>
               /\ session' = Some(Len(sessions) + 1)
               /\ sessions' = Append(sessions, "open") ]_vars
    /\ [][ ( /\ session # None
             /\ close_pc = "idle"
             /\ close_pc' = "idle" ) =>
               /\ session' = session
               /\ sessions' = sessions ]_vars

\* a later cycle has finished on the only session ever created
C9_Witness ==
    /\ CycleFinished
    /\ cycle.before # None
    /\ session = Some(1)
    /\ sessions = << "open" >>

\* C10: async_close with no session does nothing; with a session it calls
\* that session's close() once and leaves the coordinator without a session,
\* so that no session is ever closed twice.
C10_CloseIsIdempotent ==
    /\ [](\A i \in DOMAIN close_calls : close_calls[i] <= 1)
    /\ [](close_pc = "closing" => session # None)
    /\ [][ (session = None /\ close_pc = "idle") =>
               /\ close_pc' = "idle"
               /\ \A i \in DOMAIN close_calls : close_calls'[i] = close_calls[i]
               /\ \A i \in DOMAIN sessions : sessions'[i] = sessions[i] ]_vars
    /\ [][ (close_pc = "closing" /\ close_pc' = "idle") =>
               /\ session' = None
               /\ sessions'[Val(session)] = "closed"
               /\ close_calls'[Val(session)] = 1 ]_vars

\* a session has been closed and released, and async_close can be called again
C10_Witness ==
    /\ session = None
    /\ close_pc = "idle"
    /\ lifecycle = "loaded"
    /\ \E i \in DOMAIN sessions : sessions[i] = "closed" /\ close_calls[i] = 1

\* C11: a successful cycle that follows a successful cycle with the same
\* body (the configuration being the coordinator's) leaves the snapshot as
\* the first one built it.
C11_SameDataSameSnapshot ==
    ( /\ CycleFinished
      /\ cycle.outcome = "ok"
      /\ cycle.prev.outcome = "ok"
      /\ cycle.prev.body = cycle.body ) =>
        data = cycle.before

\* two successful cycles on the same body, with a record in the snapshot
C11_Witness ==
    /\ CycleFinished
    /\ cycle.outcome = "ok"
    /\ cycle.prev.outcome = "ok"
    /\ cycle.prev.body = cycle.body
    /\ DOMAIN Val(data) # {}

\* C12: whatever is raised inside a cycle (a configuration error, a transport
\* error or timeout, a bad status, a parse error, a RuntimeError of a closed
\* session, a TypeError of the processing), the cycle ends with UpdateFailed.
C12_OnlyUpdateFailedEscapes ==
    cycle.outcome = "failed" =>
        /\ cycle.exception = "UpdateFailed"
        /\ cycle.handler \in { "communication", "unexpected" }

\* a timeout of the request, which no handler names, has ended a cycle
C12_Witness ==
    /\ cycle.outcome = "failed"
    /\ cycle.raised = "TimeoutError"
    /\ cycle.handler = "unexpected"

\* C13: the attributes of a sensor whose pair is in the snapshot, which a
\* successful cycle has published, carry the time of the last success as
\* last_updated.
C13_LastUpdatedCarriesSuccessTime ==
    \A key \in sensors :
        (data # None /\ key \in DOMAIN Val(data)) =>
            ExtraStateAttributes(data, key, last_update_success).value["last_updated"] # None

\* C15: a cycle that follows a failed cycle and receives a well-formed body
\* succeeds and publishes the mapping built from that body; and no cycle,
\* failed or not, issues more than one request.
C15_FailureIsNotPermanent ==
    /\ ( /\ CycleFinished
         /\ cycle.prev.outcome = "failed"
         /\ cycle.body # None
         /\ WellFormed(Val(cycle.body)) ) =>
           /\ cycle.outcome = "ok"
           /\ last_update_success
           /\ data = Some(ProcessedData(cycle.tp, Val(cycle.body).data))
    /\ cycle.requests <= 1

\* a cycle has succeeded after a failed one and published a record
C15_Witness ==
    /\ CycleFinished
    /\ cycle.prev.outcome = "failed"
    /\ cycle.outcome = "ok"
    /\ DOMAIN Val(data) # {}
    /\ data # cycle.before

\* C16: while a cycle is suspended at the request or at the body, the
\* snapshot is the one the cycle found; the snapshot changes only in the step
\* that ends a successful cycle, to the whole mapping built from the body (or
\* to None when a new coordinator is constructed).
C16_SnapshotReplacedAsAWhole ==
    /\ [](pc # "idle" => data = cycle.before)
    /\ [][ data' # data =>
             \/ /\ pc = "json"
                /\ pc' = "idle"
                /\ cycle'.outcome = "ok"
                /\ data' = Some(ProcessedData(cycle'.tp, Val(cycle'.body).data))
             \/ /\ lifecycle' = "first_refresh"
                /\ data' = None ]_vars

\* a cycle is suspended at the body while the earlier snapshot, with a
\* record, is there to read
C16_Witness ==
    /\ pc = "json"
    /\ data # None
    /\ DOMAIN Val(data) # {}
    /\ data = cycle.before

\* C18: at most one session is open at any time, and it is the one the
\* coordinator holds; a session is created only by a coordinator that holds
\* none; and a cycle that starts on a session that a shutdown has closed and
\* not yet released ends at once as a failed cycle with UpdateFailed, the
\* snapshot untouched.
C18_FetchAndShutdownInterleave ==
    /\ [](\A i \in DOMAIN sessions : sessions[i] = "open" => session = Some(i))
    /\ [][ Len(sessions') > Len(sessions) =>
             /\ session = None
             /\ session' = Some(Len(sessions'))
             /\ Len(sessions') = Len(sessions) + 1 ]_vars
    /\ [][ ( /\ pc = "idle"
             /\ cycle' # cycle
             /\ cycle'.outcome # "none"
             /\ cycle'.tp # << >>
             /\ session # None
             /\ sessions[Val(session)] = "closed" ) =>
               /\ pc' = "idle"
               /\ cycle'.outcome = "failed"
               /\ cycle'.exception = "UpdateFailed"
               /\ cycle'.requests = 0
               /\ last_update_success' = FALSE
               /\ data' = data
               /\ sessions' = sessions ]_vars

\* a cycle has run into the session that a suspended shutdown is closing
C18_Witness ==
    /\ close_pc = "closing"
    /\ CycleFinished
    /\ cycle.error = "session_closed"
    /\ cycle.before # None

\* C19: the coordinator leaves the registry only in an unload whose platform
\* unload succeeded, in the step that also starts to close its session (or,
\* without a session, returns True); the unload returns True once the session
\* is closed; an unload whose platform unload failed returns False and
\* changes nothing else, and False is returned by no other unload.
C19_UnloadOnlyWhenPlatformsUnloaded ==
    /\ [][ (registered /\ ~registered') =>
             /\ lifecycle = "unload_platforms"
             /\ sensors' = {}
             /\ session = None =>
                   /\ unload_result' = "True"
                   /\ lifecycle' = "unloaded"
             /\ session # None =>
                   /\ unload_ok' = Some(TRUE)
                   /\ sessions'[Val(session)] = "closed"
                   /\ close_pc' = "closing"
                   /\ lifecycle' = "unloading" ]_vars
    /\ [][ (lifecycle = "unloading" /\ lifecycle' = "unloaded") =>
             /\ unload_result' = "True"
             /\ ~registered' ]_vars
    /\ [][ (lifecycle = "unload_platforms" /\ lifecycle' = "loaded") =>
             /\ unload_result' = "False"
             /\ registered /\ registered'
             /\ UNCHANGED << entry, sensors, setup_result, data, last_update_success,
                             session, sessions, close_calls, pc, close_pc, cycle >> ]_vars
    /\ [][ (unload_result' = "False" /\ unload_result # "False") =>
             (lifecycle = "unload_platforms" /\ lifecycle' = "loaded") ]_vars

\* a failed platform unload has left the coordinator registered, with its
\* open session and its snapshot
C19_Witness ==
    /\ unload_result = "False"
    /\ registered
    /\ lifecycle = "loaded"
    /\ session # None
    /\ sessions[Val(session)] = "open"
    /\ data # None
    /\ DOMAIN Val(data) # {}

\* C20: a status other than 200 ends the cycle as failed, with the status in
\* the failure and the snapshot as before, and no body is read; a cycle reads
\* the body only after a status of 200.
C20_OnlyStatus200Proceeds ==
    /\ (cycle.status # None /\ Val(cycle.status) # 200) =>
          /\ pc = "idle"
          /\ cycle.outcome = "failed"
          /\ cycle.error = "status"
          /\ cycle.arg = cycle.status
          /\ cycle.body = None
          /\ data = cycle.before
    /\ (pc = "json" \/ cycle.body # None \/ cycle.outcome = "ok") =>
          cycle.status = Some(200)

\* a 204 has failed a cycle that followed a successful one
C20_Witness ==
    /\ CycleFinished
    /\ cycle.status = Some(204)
    /\ cycle.outcome = "failed"
    /\ cycle.before # None
    /\ DOMAIN Val(cycle.before) # {}

\* the input of the flow's latest submission, and what the entry it created
\* stores as its pairs
FlowText == Val(flow.user_input).trading_pairs
FlowResult == Val(flow.result)
StoredPairs == Val(FlowResult.data).trading_pairs.v

\* C14: the text "BTCAUD,ETHUSD" is stored as the two pairs BTCAUD and
\* ETHUSD; the request of the entry's coordinator names one asset per stored
\* pair, the lower case of the pair's first three characters, and names the
\* lower case of the remainder of every pair among its currencies, each
\* currency once; "BTCAUD" alone gives btc and aud.
C14_PairParsing ==
    /\ (flow.user_input # None /\ FlowText = BTCAUD \o << "," >> \o ETHUSD) =>
          /\ FlowResult.type = "create_entry"
          /\ StoredPairs = << BTCAUD, ETHUSD >>
    /\ flow.params # None =>
          LET tp == StoredPairs
              coin_ids == Split(Val(flow.params).ids)
              currencies == Split(Val(flow.params).vs_currencies)
          IN  /\ Len(coin_ids) = Len(tp)
              /\ \A i \in DOMAIN tp :
                    /\ coin_ids[i] = Lower(SubSeq(tp[i], 1, 3))
                    /\ \E j \in DOMAIN currencies :
                          currencies[j] = Lower(SubSeq(tp[i], 4, Len(tp[i])))
              /\ \A j \in DOMAIN currencies :
                    \E i \in DOMAIN tp : currencies[j] = Lower(SubSeq(tp[i], 4, Len(tp[i])))
              /\ \A j1, j2 \in DOMAIN currencies :
                    currencies[j1] = currencies[j2] => j1 = j2
              /\ tp = << BTCAUD >> => (coin_ids = << btc >> /\ currencies = << aud >>)

\* two pairs of one currency, written in different case, have given a
\* request with two assets and one currency
C14_Witness ==
    /\ flow.params # None
    /\ Len(StoredPairs) = 2
    /\ Split(Val(flow.params).ids) = << btc, eth >>
    /\ Split(Val(flow.params).vs_currencies) = << aud >>

\* C17: a submission to either flow creates an entry exactly when the pairs
\* of the text (its comma-separated pieces, trimmed and upper-cased, the
\* blank pieces dropped) are at least one, each of 6 or more characters, all
\* letters; the entry then stores those pairs; otherwise the form is shown
\* again, with no_trading_pairs when there is no pair and invalid_pair_format
\* when a pair is malformed, and nothing is stored.
C17_FlowsStoreOnlyValidPairs ==
    flow.user_input # None =>
        LET pairs == ParsePairs(FlowText)
            valid == /\ pairs # << >>
                     /\ \A i \in DOMAIN pairs :
                           /\ Len(pairs[i]) >= 6
                           /\ \A k \in DOMAIN pairs[i] : InSeq(pairs[i][k], UpperChars)
        IN  /\ FlowResult.type = "create_entry" <=> valid
            /\ valid =>
                  /\ StoredPairs = pairs
                  /\ Val(FlowResult.data).trading_pairs.kind = "list"
            /\ ~valid =>
                  /\ FlowResult.type = "form"
                  /\ FlowResult.data = None
                  /\ FlowResult.step_id = (IF flow.handler = "user" THEN "user" ELSE "init")
                  /\ FlowResult.errors = (IF pairs = << >> THEN "no_trading_pairs"
                                          ELSE "invalid_pair_format")

\* the options flow has refused a text whose second pair holds a digit
C17_Witness ==
    /\ flow.handler = "options"
    /\ flow.user_input # None
    /\ FlowResult.type = "form"
    /\ FlowResult.errors = "invalid_pair_format"
    /\ ParsePairs(FlowText) = << BTCAUD, << "B", "T", "C", "4", "U", "D" >> >>

====
